---- MODULE Spec2Model ----
(***************************************************************************)
(* LearnerND (adaptive/learner/learnerND.py): the adaptive refinement      *)
(* engine, instantiated for one input dimension (ndim = 1) over the        *)
(* bounding box (0, 8).  A point is the single coordinate of its 1-tuple.  *)
(* A simplex is a pair of vertex indices of a triangulation, an interval.  *)
(* Coordinates are integers; a candidate point that is not an integer is   *)
(* outside the resolution of the model and the request is not taken.       *)
(***************************************************************************)
EXTENDS Integers, Sequences, FiniteSets, TLC

VARIABLES
    data,                \* OrderedDict point -> value, as the sequence of its items
    _pending,            \* set of points requested and not yet told
    _tri,                \* the outer triangulation, NoTri while None
    _losses,             \* loss ledger: simplex -> loss
    _pending_to_simplex, \* pending point -> home simplex
    _subtriangulations,  \* simplex -> triangulation of the pending points in it
    _losses_combined,    \* the heap of (-loss, simplex, subsimplex or None)
    _random,             \* number of draws made from the private generator
    qhull,               \* vertex order in which Delaunay reports a simplex
    anisotripic,         \* the flag anisotropic of the construction
    last,                \* the last call and what it returned
    asked,               \* the points returned while only ask has been called
    reference,           \* the state reached by tells only, kept for comparison
    phase,               \* "tells", "requests", "reset" or "mixed"
    nops                 \* number of calls made

vars == <<data, _pending, _tri, _losses, _pending_to_simplex,
          _subtriangulations, _losses_combined, _random, qhull, anisotripic,
          last, asked, reference, phase, nops>>

(***************************************************************************)
(* Parameters of the construction and bounds of the exploration.           *)
(***************************************************************************)
bounds == << <<0, 8>> >>
ndim == Len(bounds)

MaxOps == 5
MaxAsk == 2
\* Number of calls of a caller that tells values of any kind.
MaxValueOps == 4

\* Points the caller tells of its own accord (it also tells the pending
\* ones), and points it marks pending itself.
TellPoints == {0, 2, 4, 8}
PendingPoints == {4, 5}
\* random.Random(1): the draws, scaled to the bounds, are a fixed sequence
\* of distinct points of the box, none of which the caller tells of its own
\* accord.
RandomPoints == <<1, 7, 3>>

Max2(a, b) == IF a >= b THEN a ELSE b
Min2(a, b) == IF a <= b THEN a ELSE b
Abs(a) == IF a >= 0 THEN a ELSE -a

(***************************************************************************)
(* Values.  None is the absent value; a scalar y and a vector are kept     *)
(* with their kind so that values of different kinds can be compared.      *)
(***************************************************************************)
NoneValue == [kind |-> "none", v |-> <<>>]
Scalar(y) == [kind |-> "scalar", v |-> <<y>>]
Vector(ys) == [kind |-> "vector", v |-> ys]
Values == {Scalar(0), Scalar(1)}
\* Values of an output of two dimensions.
VectorValues == {Vector(<<0, 0>>), Vector(<<0, 1>>)}

\* The function being learned, whose values the caller tells: a step.
function(x) == IF x >= 4 THEN Scalar(1) ELSE Scalar(0)

(***************************************************************************)
(* Losses.  default_loss of an interval is the length of the segment       *)
(* between (x0, y0) and (x1, y1), a square root.  A loss is kept exactly   *)
(* as (sub / vol) * sqrt(sq); vol = 0 is float('inf').                     *)
(***************************************************************************)
Loss(sub, vol, sq) == [sub |-> sub, vol |-> vol, sq |-> sq]
inf == Loss(1, 0, 1)

LossKey(a, b) == a.sub * a.sub * a.sq * b.vol * b.vol
LossLT(a, b) == LossKey(a, b) < LossKey(b, a)
LossEQ(a, b) == LossKey(a, b) = LossKey(b, a)
LossLE(a, b) == LossKey(a, b) <= LossKey(b, a)

\* subtriangulation.volume(subsimplex) * (loss / self.tri.volume(simpl))
SubLoss(loss, subvol, vol) == Loss(loss.sub * subvol, loss.vol * vol, loss.sq)

(***************************************************************************)
(* The Triangulation collaborator in one dimension: the vertices in        *)
(* insertion order and the intervals between neighbouring vertices.        *)
(***************************************************************************)
NoTri == [vertices |-> <<>>, simplices |-> {}]
NoSimplex == <<>>

Triangulation(coords) ==
    [vertices |-> coords, simplices |-> {<<1, 2>>}]

Tri_get_vertices(t, simplex) ==
    [i \in 1..Len(simplex) |-> t.vertices[simplex[i]]]

SimplexLo(t, simplex) == Min2(t.vertices[simplex[1]], t.vertices[simplex[2]])
SimplexHi(t, simplex) == Max2(t.vertices[simplex[1]], t.vertices[simplex[2]])

Tri_volume(t, simplex) == SimplexHi(t, simplex) - SimplexLo(t, simplex)

Tri_point_in_simplex(t, point, simplex) ==
    SimplexLo(t, simplex) <= point /\ point <= SimplexHi(t, simplex)

Tri_locate_point(t, point) ==
    IF \E s \in t.simplices : Tri_point_in_simplex(t, point, s)
    THEN CHOOSE s \in t.simplices : Tri_point_in_simplex(t, point, s)
    ELSE NoSimplex

Tri_vertex_to_simplices(t, i) == {s \in t.simplices : s[1] = i \/ s[2] = i}

\* The hull vertex next to a point that lies outside the hull.
HullVertex(t, point) ==
    CHOOSE i \in 1..Len(t.vertices) :
        \A j \in 1..Len(t.vertices) :
            Abs(t.vertices[i] - point) <= Abs(t.vertices[j] - point)

\* add_point(point, simplex=None, transform=None) -> (deleted, added).
\* In one dimension the transform is a positive factor and moves nothing.
Tri_add_point(t, point, simplex, transform) ==
    LET s == IF simplex = NoSimplex THEN Tri_locate_point(t, point) ELSE simplex
        k == Len(t.vertices) + 1
        vs == Append(t.vertices, point)
    IN  IF s # NoSimplex
        THEN LET new == {<<s[1], k>>, <<s[2], k>>}
             IN  [tri |-> [vertices |-> vs,
                           simplices |-> (t.simplices \ {s}) \cup new],
                  deleted |-> {s}, added |-> new]
        ELSE LET new == {<<HullVertex(t, point), k>>}
             IN  [tri |-> [vertices |-> vs,
                           simplices |-> t.simplices \cup new],
                  deleted |-> {}, added |-> new]

\* Iteration over a set of simplices, in the order of the index tuples.
SimplexBefore(a, b) == a[1] < b[1] \/ (a[1] = b[1] /\ a[2] < b[2])

RECURSIVE SimplexSeq(_)
SimplexSeq(S) ==
    IF S = {} THEN <<>>
    ELSE LET m == CHOOSE a \in S : \A b \in S \ {a} : SimplexBefore(a, b)
         IN  <<m>> \o SimplexSeq(S \ {m})

RECURSIVE PointSeq(_)
PointSeq(S) ==
    IF S = {} THEN <<>>
    ELSE LET m == CHOOSE a \in S : \A b \in S : a <= b
         IN  <<m>> \o PointSeq(S \ {m})

(***************************************************************************)
(* Module-level functions of learnerND.py.                                 *)
(***************************************************************************)
\* np.linalg.matrix_rank(pts[1:] - origin) for one-coordinate points.
MatrixRank(pts) ==
    IF \E i \in 2..Len(pts) : pts[i] # pts[1] THEN 1 ELSE 0

\* The first simplex Delaunay reports: the lowest interval, its two vertex
\* indices in the order the build of qhull reports them.
find_initial_simplex(pts, nd, order) ==
    IF MatrixRank(pts) < nd THEN NoSimplex
    ELSE LET lo == CHOOSE i \in 1..Len(pts) : \A j \in 1..Len(pts) : pts[i] <= pts[j]
             nx == CHOOSE i \in 1..Len(pts) :
                       /\ pts[i] > pts[lo]
                       /\ \A j \in 1..Len(pts) : pts[j] > pts[lo] => pts[i] <= pts[j]
         IN  IF order = "asc" THEN <<lo, nx>> ELSE <<nx, lo>>

\* volume(simplex): |det| / dim!, the length of the interval.
volume(simplex) == Abs(simplex[1] - simplex[2])

\* simplex_volume_in_embedding of two points: the length of the segment
\* between them, whose square is the sum of the squared differences of the
\* coordinates.  Points of unequal length make no array.
RECURSIVE SquaredDistance(_, _)
SquaredDistance(a, b) ==
    IF a = <<>> THEN 0
    ELSE (a[1] - b[1]) * (a[1] - b[1]) + SquaredDistance(Tail(a), Tail(b))

simplex_volume_in_embedding(pts) ==
    IF Len(pts[1]) # Len(pts[2]) THEN [err |-> "ValueError", loss |-> inf]
    ELSE [err |-> "none", loss |-> Loss(1, 1, SquaredDistance(pts[1], pts[2]))]

\* (*x, *y) of a y that is no Iterable raises TypeError; (*x, y) of a y that
\* is one puts a sequence where a number belongs.
default_loss(simplex, ys) ==
    IF ys[1].kind = "vector"
    THEN IF \E i \in 1..Len(ys) : ys[i].kind # "vector"
         THEN [err |-> "TypeError", loss |-> inf]
         ELSE simplex_volume_in_embedding(
                  [i \in 1..Len(ys) |-> <<simplex[i]>> \o ys[i].v])
    ELSE IF \E i \in 1..Len(ys) : ys[i].kind = "vector"
         THEN [err |-> "ValueError", loss |-> inf]
         ELSE simplex_volume_in_embedding(
                  [i \in 1..Len(ys) |-> <<simplex[i]>> \o ys[i].v])

loss_per_simplex(simplex, ys) == default_loss(simplex, ys)

\* The candidate point has integer coordinates.
Representable(simplex) == (simplex[1] + simplex[2]) % 2 = 0

\* The circumsphere of an interval is centred on its middle, which lies in
\* the interval, so the point is the average of the vertices; the middle of
\* the longest edge is the same point.  center2 is twice the centre.
choose_point_in_simplex(simplex, transform) ==
    LET center2 == simplex[1] + simplex[2]
        lo == Min2(simplex[1], simplex[2])
        hi == Max2(simplex[1], simplex[2])
    IN  IF 2 * lo <= center2 /\ center2 <= 2 * hi
        THEN (simplex[1] + simplex[2]) \div 2
        ELSE (lo + hi) \div 2

(***************************************************************************)
(* LearnerND.  An operator takes the learner as the record self and        *)
(* returns the learner it leaves behind (st), with the error it raised     *)
(* (err) and what it returned.                                             *)
(***************************************************************************)
_scale_matrix == "scale"

EmptyMap == [x \in {} |-> 0]
Put(f, k, v) == [x \in (DOMAIN f) \cup {k} |-> IF x = k THEN v ELSE f[x]]
Drop(f, K) == [x \in (DOMAIN f) \ K |-> f[x]]
Range(q) == {q[i] : i \in 1..Len(q)}

\* __init__
NewLearner(order, anisotropic) ==
    [data |-> <<>>, _pending |-> {}, _tri |-> NoTri, _losses |-> EmptyMap,
     _pending_to_simplex |-> EmptyMap, _subtriangulations |-> EmptyMap,
     _losses_combined |-> <<>>, _random |-> 0, qhull |-> order,
     anisotripic |-> anisotropic]

_bounds_points == <<bounds[1][1], bounds[1][2]>>

Keys(d) == {d[i].x : i \in 1..Len(d)}
Value(d, p) == d[CHOOSE i \in 1..Len(d) : d[i].x = p].y
points(self) == [i \in 1..Len(self.data) |-> self.data[i].x]

\* len(value) of the first value told, 1 for a value without a length.
Dim(value) == IF value.kind = "vector" THEN Len(value.v) ELSE 1
vdim(self) == IF self.data = <<>> THEN 1 ELSE Dim(self.data[1].y)

bounds_are_done(self) ==
    \A i \in 1..Len(_bounds_points) : _bounds_points[i] \in Keys(self.data)

_bounds_available(self) ==
    \E i \in 1..Len(_bounds_points) :
        /\ _bounds_points[i] \notin self._pending
        /\ _bounds_points[i] \notin Keys(self.data)

RECURSIVE AddPoints(_, _)
AddPoints(t, to_add) ==
    IF to_add = <<>> THEN t
    ELSE AddPoints(Tri_add_point(t, Head(to_add), NoSimplex, _scale_matrix).tri,
                   Tail(to_add))

\* The property tri.  The call that builds the triangulation runs off the
\* end of the property and so returns None (val = NoTri).
tri(self) ==
    IF self._tri # NoTri THEN [st |-> self, val |-> self._tri]
    ELSE IF Len(self.data) < 2 THEN [st |-> self, val |-> NoTri]
    ELSE LET pts == points(self)
             initial_simplex == find_initial_simplex(pts, ndim, self.qhull)
         IN  IF initial_simplex = NoSimplex THEN [st |-> self, val |-> NoTri]
             ELSE LET t0 == Triangulation(
                               [i \in 1..Len(initial_simplex) |-> pts[initial_simplex[i]]])
                      to_add == SelectSeq(pts, LAMBDA p :
                                   \A i \in 1..Len(initial_simplex) : pts[initial_simplex[i]] # p)
                  IN  [st |-> [self EXCEPT !._tri = AddPoints(t0, to_add)],
                       val |-> NoTri]

_simplex_exists(self, simplex) == simplex \in tri(self).val.simplices

(***************************************************************************)
(* The heap _losses_combined, kept as the sequence heappop would deliver.  *)
(***************************************************************************)
Entry(loss, simplex, subsimplex) ==
    [loss |-> loss, simplex |-> simplex, subsimplex |-> subsimplex]

\* (-loss, simplex, subsimplex) < (-loss, simplex, subsimplex) of tuples.
EntryBefore(a, b) ==
    \/ LossLT(b.loss, a.loss)
    \/ /\ LossEQ(a.loss, b.loss)
       /\ \/ SimplexBefore(a.simplex, b.simplex)
          \/ /\ a.simplex = b.simplex
             /\ a.subsimplex # b.subsimplex
             /\ \/ a.subsimplex = NoSimplex
                \/ /\ b.subsimplex # NoSimplex
                   /\ SimplexBefore(a.subsimplex, b.subsimplex)

RECURSIVE heappush(_, _)
heappush(heap, e) ==
    IF heap = <<>> THEN <<e>>
    ELSE IF EntryBefore(Head(heap), e) THEN <<Head(heap)>> \o heappush(Tail(heap), e)
    ELSE <<e>> \o heap

RECURSIVE PushAll(_, _)
PushAll(heap, es) ==
    IF es = <<>> THEN heap ELSE PushAll(heappush(heap, Head(es)), Tail(es))

\* The entries of the cells `cells` of the subtriangulation of simpl.
SubEntries(self, simpl, cells) ==
    LET subtriangulation == self._subtriangulations[simpl]
        cs == SimplexSeq(cells)
    IN  [i \in 1..Len(cs) |->
            Entry(SubLoss(self._losses[simpl],
                          Tri_volume(subtriangulation, cs[i]),
                          Tri_volume(self._tri, simpl)),
                  simpl, cs[i])]

(***************************************************************************)
(* _tell_pending                                                           *)
(***************************************************************************)
Ok(self) == [st |-> self, err |-> "none"]

\* for simpl in neighbours: ...
RECURSIVE TellPendingNeighbours(_, _, _)
TellPendingNeighbours(self, point, neighbours) ==
    IF neighbours = <<>> THEN Ok(self)
    ELSE LET simpl == Head(neighbours)
         IN  IF ~Tri_point_in_simplex(self._tri, point, simpl)
             THEN TellPendingNeighbours(self, point, Tail(neighbours))
             ELSE LET tr == Triangulation(Tri_get_vertices(self._tri, simpl))
                      Added(r) ==
                          LET Losses(s1) ==
                                  IF simpl \notin DOMAIN s1._losses
                                  THEN [st |-> s1, err |-> "KeyError"]
                                  ELSE TellPendingNeighbours(
                                           [s1 EXCEPT !._losses_combined =
                                                PushAll(@, SubEntries(s1, simpl, r.added))],
                                           point, Tail(neighbours))
                          IN  Losses([self EXCEPT !._subtriangulations =
                                          Put(@, simpl, r.tri)])
                  IN  Added(IF simpl \notin DOMAIN self._subtriangulations
                            THEN Tri_add_point(tr, point,
                                     CHOOSE s \in tr.simplices : TRUE, "None")
                            ELSE Tri_add_point(self._subtriangulations[simpl],
                                     point, NoSimplex, "None"))

\* As _tell_pending, taking the loss of the subdivided simplex out of the
\* ledger.
_tell_pending_consuming(self, point, simplex) ==
    LET Consumed(r, home) == [r EXCEPT !.st._losses = Drop(@, {home})]
        Tri(t) ==
            IF t.val = NoTri THEN Ok(t.st)
            ELSE LET home == IF simplex # NoSimplex THEN simplex
                             ELSE Tri_locate_point(t.val, point)
                 IN  IF home = NoSimplex THEN Ok(t.st)
                     ELSE LET neighbours ==
                                  UNION {Tri_vertex_to_simplices(t.val, home[i]) :
                                             i \in 1..Len(home)}
                          IN  Consumed(TellPendingNeighbours(t.st, point,
                                           SimplexSeq(neighbours)), home)
    IN  Tri(tri([self EXCEPT !._pending = @ \cup {point}]))

_tell_pending(self, point, simplex) ==
    LET Tri(t) ==
            IF t.val = NoTri THEN Ok(t.st)
            ELSE LET home == IF simplex # NoSimplex THEN simplex
                             ELSE Tri_locate_point(t.val, point)
                 IN  IF home = NoSimplex THEN Ok(t.st)
                     ELSE LET neighbours ==
                                  UNION {Tri_vertex_to_simplices(t.val, home[i]) :
                                             i \in 1..Len(home)}
                          IN  TellPendingNeighbours(t.st, point, SimplexSeq(neighbours))
    IN  Tri(tri([self EXCEPT !._pending = @ \cup {point}]))

(***************************************************************************)
(* update_losses                                                           *)
(***************************************************************************)
\* for p in pending_points_unbound: ... (within one added simplex)
RECURSIVE Rehome(_, _, _)
Rehome(self, simplex, unbound) ==
    IF unbound = <<>> THEN self
    ELSE LET p == Head(unbound)
         IN  IF ~Tri_point_in_simplex(self._tri, p, simplex)
             THEN Rehome(self, simplex, Tail(unbound))
             ELSE LET sub == IF simplex \in DOMAIN self._subtriangulations
                             THEN self._subtriangulations[simplex]
                             ELSE Triangulation(Tri_get_vertices(self._tri, simplex))
                      r == Tri_add_point(sub, p, NoSimplex, "None")
                  IN  Rehome([self EXCEPT
                                 !._subtriangulations = Put(@, simplex, r.tri),
                                 !._pending_to_simplex = Put(@, p, simplex)],
                             simplex, Tail(unbound))

\* for simplex in to_add: ...
RECURSIVE AddLosses(_, _, _)
AddLosses(self, to_add, unbound) ==
    IF to_add = <<>> THEN Ok(self)
    ELSE LET simplex == Head(to_add)
             vertices == Tri_get_vertices(self._tri, simplex)
             values == [i \in 1..Len(vertices) |-> Value(self.data, vertices[i])]
             computed == loss_per_simplex(vertices, values)
             loss == computed.loss
             Push(s1) ==
                 IF simplex \notin DOMAIN s1._subtriangulations
                 THEN [s1 EXCEPT !._losses_combined =
                          heappush(@, Entry(loss, simplex, NoSimplex))]
                 ELSE [s1 EXCEPT !._losses_combined =
                          PushAll(@, SubEntries(s1, simplex,
                              s1._subtriangulations[simplex].simplices))]
         IN  IF computed.err # "none" THEN [st |-> self, err |-> computed.err]
             ELSE AddLosses(Push(Rehome([self EXCEPT !._losses =
                                             Put(@, simplex, loss)],
                                        simplex, unbound)),
                            Tail(to_add), unbound)

\* As update_losses, without inserting the pending points of the deleted
\* subtriangulations into the added simplices.
update_losses_orphaning(self, to_delete, to_add) ==
    LET s1 == [self EXCEPT !._losses = Drop(@, to_delete),
                           !._subtriangulations = Drop(@, to_delete)]
    IN  AddLosses(s1, SimplexSeq(to_add), <<>>)

\* As update_losses, keeping the subtriangulations of the deleted simplices.
update_losses_undropped(self, to_delete, to_add) ==
    LET dropped == to_delete \cap DOMAIN self._subtriangulations
        pending_points_unbound ==
            {p \in UNION {Range(self._subtriangulations[s].vertices) : s \in dropped} :
                 p \notin Keys(self.data)}
        s1 == [self EXCEPT !._losses = Drop(@, to_delete)]
    IN  AddLosses(s1, SimplexSeq(to_add), PointSeq(pending_points_unbound))

\* As update_losses, keeping the vertices that are samples among the
\* points to insert again.
update_losses_unfiltered(self, to_delete, to_add) ==
    LET dropped == to_delete \cap DOMAIN self._subtriangulations
        pending_points_unbound ==
            UNION {Range(self._subtriangulations[s].vertices) : s \in dropped}
        s1 == [self EXCEPT !._losses = Drop(@, to_delete),
                           !._subtriangulations = Drop(@, to_delete)]
    IN  AddLosses(s1, SimplexSeq(to_add), PointSeq(pending_points_unbound))

update_losses(self, to_delete, to_add) ==
    LET dropped == to_delete \cap DOMAIN self._subtriangulations
        pending_points_unbound ==
            {p \in UNION {Range(self._subtriangulations[s].vertices) : s \in dropped} :
                 p \notin Keys(self.data)}
        s1 == [self EXCEPT !._losses = Drop(@, to_delete),
                           !._subtriangulations = Drop(@, to_delete)]
    IN  AddLosses(s1, SimplexSeq(to_add), PointSeq(pending_points_unbound))

(***************************************************************************)
(* tell                                                                    *)
(***************************************************************************)
RECURSIVE SumSeq(_)
SumSeq(q) == IF q = <<>> THEN 0 ELSE Head(q) + SumSeq(Tail(q))

\* The gradient of the least-squares line through the samples, times the
\* positive number n * sum(x^2) - sum(x)^2.
Gradient(d) ==
    Len(d) * SumSeq([i \in 1..Len(d) |-> d[i].x * d[i].y.v[1]])
        - SumSeq([i \in 1..Len(d) |-> d[i].x]) *
          SumSeq([i \in 1..Len(d) |-> d[i].y.v[1]])

\* As get_local_transform_matrix, without the test of the values.
get_local_transform_matrix_untested(self, point) ==
    IF tri(self).val = NoTri \/ ~self.anisotripic
    THEN [err |-> "none", val |-> _scale_matrix]
    ELSE IF Gradient(self.data) = 0
    THEN [err |-> "none", val |-> _scale_matrix]
    ELSE [err |-> "none", val |-> "local"]

\* The nearest of the indexed points is the point itself, which tell has
\* indexed and stored; with fewer than ten samples every sample is among
\* the points fitted.  np.array(values, dtype=float) takes numbers only.
\* Without a noticeable gradient the scale is returned; the value "local"
\* stands for the scale stretched along the gradient.
get_local_transform_matrix(self, point) ==
    IF tri(self).val = NoTri \/ ~self.anisotripic
    THEN [err |-> "none", val |-> _scale_matrix]
    ELSE IF Value(self.data, point).kind = "vector"
    THEN [err |-> "ValueError", val |-> _scale_matrix]
    ELSE IF \E i \in 1..Len(self.data) : self.data[i].y.kind = "vector"
    THEN [err |-> "ValueError", val |-> _scale_matrix]
    ELSE IF Gradient(self.data) = 0
    THEN [err |-> "none", val |-> _scale_matrix]
    ELSE [err |-> "none", val |-> "local"]

\* As tell_new, without self._pending.discard(point).
tell_new_undiscarded(self, point, value) ==
    IF value = NoneValue THEN _tell_pending(self, point, NoSimplex)
    ELSE LET Added(t, r) ==
                 update_losses([t.st EXCEPT !._tri = r.tri], r.deleted, r.added)
             Transformed(t, simplex, transform) ==
                 IF transform.err # "none" THEN [st |-> t.st, err |-> transform.err]
                 ELSE Added(t, Tri_add_point(t.st._tri, point, simplex, transform.val))
             Known(t, known) ==
                 Transformed(t,
                             IF known # NoSimplex /\ ~_simplex_exists(t.st, known)
                             THEN NoSimplex ELSE known,
                             get_local_transform_matrix(t.st, point))
             Tri(t) ==
                 IF t.val = NoTri THEN Ok(t.st)
                 ELSE Known(t, IF point \in DOMAIN t.st._pending_to_simplex
                               THEN t.st._pending_to_simplex[point] ELSE NoSimplex)
         IN  Tri(tri([self EXCEPT !.data = Append(@, [x |-> point, y |-> value])]))

\* As tell_new, leaving the learner as it was when the transform cannot be
\* computed.
tell_new_atomic(self, point, value) ==
    IF value = NoneValue THEN _tell_pending(self, point, NoSimplex)
    ELSE LET Added(t, r) ==
                 update_losses([t.st EXCEPT !._tri = r.tri], r.deleted, r.added)
             Transformed(t, simplex, transform) ==
                 IF transform.err # "none" THEN [st |-> self, err |-> transform.err]
                 ELSE Added(t, Tri_add_point(t.st._tri, point, simplex, transform.val))
             Known(t, known) ==
                 Transformed(t,
                             IF known # NoSimplex /\ ~_simplex_exists(t.st, known)
                             THEN NoSimplex ELSE known,
                             get_local_transform_matrix(t.st, point))
             Tri(t) ==
                 IF t.val = NoTri THEN Ok(t.st)
                 ELSE Known(t, IF point \in DOMAIN t.st._pending_to_simplex
                               THEN t.st._pending_to_simplex[point] ELSE NoSimplex)
         IN  Tri(tri([self EXCEPT !._pending = @ \ {point},
                                  !.data = Append(@, [x |-> point, y |-> value])]))

\* tell, past the test for a point that is a sample already.
tell_new(self, point, value) ==
    IF value = NoneValue THEN _tell_pending(self, point, NoSimplex)
    ELSE LET Added(t, r) ==
                 update_losses([t.st EXCEPT !._tri = r.tri], r.deleted, r.added)
             Transformed(t, simplex, transform) ==
                 IF transform.err # "none" THEN [st |-> t.st, err |-> transform.err]
                 ELSE Added(t, Tri_add_point(t.st._tri, point, simplex, transform.val))
             Known(t, known) ==
                 Transformed(t,
                             IF known # NoSimplex /\ ~_simplex_exists(t.st, known)
                             THEN NoSimplex ELSE known,
                             get_local_transform_matrix(t.st, point))
             Tri(t) ==
                 IF t.val = NoTri THEN Ok(t.st)
                 ELSE Known(t, IF point \in DOMAIN t.st._pending_to_simplex
                               THEN t.st._pending_to_simplex[point] ELSE NoSimplex)
         IN  Tri(tri([self EXCEPT !._pending = @ \ {point},
                                  !.data = Append(@, [x |-> point, y |-> value])]))

\* As tell, without the early return: the value of a sample is overwritten.
tell_overwriting(self, point, value) ==
    IF point \in Keys(self.data) /\ value # NoneValue
    THEN Ok([self EXCEPT !.data =
                [i \in 1..Len(@) |-> IF @[i].x = point
                                     THEN [x |-> point, y |-> value] ELSE @[i]]])
    ELSE IF point \in Keys(self.data)
    THEN Ok([self EXCEPT !._pending = @ \cup {point}])
    ELSE tell_new(self, point, value)

tell(self, point, value) ==
    IF point \in Keys(self.data) THEN Ok(self)
    ELSE tell_new(self, point, value)

\* tell of the points pts with the values ys, one after the other.
RECURSIVE TellAll(_, _, _)
TellAll(self, pts, ys) ==
    IF pts = <<>> THEN self
    ELSE TellAll(tell(self, Head(pts), Head(ys)).st, Tail(pts), Tail(ys))

(***************************************************************************)
(* ask                                                                     *)
(***************************************************************************)
Answer(self, err, point, loss) ==
    [st |-> self, err |-> err, point |-> point, loss |-> loss]

\* As _ask_bound_point, without recording the corner as pending.
_ask_bound_point_unrecorded(self) ==
    LET bounds_to_do == SelectSeq(_bounds_points, LAMBDA p :
                            p \notin Keys(self.data) /\ p \notin self._pending)
    IN  Answer(self, "none", bounds_to_do[1], inf)

_ask_bound_point(self) ==
    LET bounds_to_do == SelectSeq(_bounds_points, LAMBDA p :
                            p \notin Keys(self.data) /\ p \notin self._pending)
        new_point == bounds_to_do[1]
        Told(r) == Answer(r.st, r.err, new_point, inf)
    IN  Told(_tell_pending(self, new_point, NoSimplex))

\* As _ask_point_without_known_simplices, without recording the point as
\* pending.
_ask_point_unrecorded(self) ==
    IF self._random >= Len(RandomPoints) THEN Answer(self, "range", 0, inf)
    ELSE Answer([self EXCEPT !._random = @ + 1], "none",
                RandomPoints[self._random + 1], inf)

\* Beyond the draws listed in RandomPoints the request is out of range.
_ask_point_without_known_simplices(self) ==
    IF self._random >= Len(RandomPoints) THEN Answer(self, "range", 0, inf)
    ELSE LET p == RandomPoints[self._random + 1]
             Told(r) == Answer(r.st, r.err, p, inf)
         IN  Told(_tell_pending([self EXCEPT !._random = @ + 1], p, NoSimplex))

\* As _pop_highest_existing_simplex, without the test that the simplex is
\* one of the outer triangulation.
RECURSIVE _pop_highest_simplex(_)
_pop_highest_simplex(self) ==
    IF self._losses_combined = <<>>
    THEN [st |-> self, err |-> "IndexError", entry |-> Entry(inf, NoSimplex, NoSimplex)]
    ELSE LET e == Head(self._losses_combined)
             s1 == [self EXCEPT !._losses_combined = Tail(@)]
         IN  IF \/ /\ e.subsimplex = NoSimplex
                   /\ e.simplex \notin DOMAIN s1._subtriangulations
                \/ /\ e.simplex \in DOMAIN s1._subtriangulations
                   /\ e.subsimplex \in s1._subtriangulations[e.simplex].simplices
             THEN [st |-> s1, err |-> "none", entry |-> e]
             ELSE _pop_highest_simplex(s1)

\* heappop until an entry passes one of the two checks; heappop of the
\* empty heap raises IndexError.
RECURSIVE _pop_highest_existing_simplex(_)
_pop_highest_existing_simplex(self) ==
    IF self._losses_combined = <<>>
    THEN [st |-> self, err |-> "IndexError", entry |-> Entry(inf, NoSimplex, NoSimplex)]
    ELSE LET e == Head(self._losses_combined)
             s1 == [self EXCEPT !._losses_combined = Tail(@)]
         IN  IF \/ /\ e.subsimplex = NoSimplex
                   /\ e.simplex \in s1._tri.simplices
                   /\ e.simplex \notin DOMAIN s1._subtriangulations
                \/ /\ e.simplex \in DOMAIN s1._subtriangulations
                   /\ e.simplex \in s1._tri.simplices
                   /\ e.subsimplex \in s1._subtriangulations[e.simplex].simplices
             THEN [st |-> s1, err |-> "none", entry |-> e]
             ELSE _pop_highest_existing_simplex(s1)

\* The transform that _ask_best_point hands to choose_point_in_simplex.
_ask_best_point_transform(self) == _scale_matrix

_ask_best_point(self) ==
    LET Popped(popped) ==
            LET simplex == popped.entry.simplex
                subsimplex == popped.entry.subsimplex
            IN  IF popped.err # "none" THEN Answer(popped.st, popped.err, 0, inf)
                ELSE LET pts == IF subsimplex = NoSimplex
                                THEN Tri_get_vertices(popped.st._tri, simplex)
                                ELSE Tri_get_vertices(
                                         popped.st._subtriangulations[simplex],
                                         subsimplex)
                     IN  IF ~Representable(pts) THEN Answer(self, "range", 0, inf)
                         ELSE LET point_new == choose_point_in_simplex(
                                                   pts, _ask_best_point_transform(self))
                                  Told(r) == Answer(r.st, r.err, point_new,
                                                    popped.entry.loss)
                              IN  Told(_tell_pending(
                                           [popped.st EXCEPT !._pending_to_simplex =
                                                Put(@, point_new, simplex)],
                                           point_new, simplex))
    IN  Popped(_pop_highest_existing_simplex(self))

\* As _ask, with the test for a missing triangulation made first.
_ask_random_first(self) ==
    IF tri(self).val = NoTri
    THEN _ask_point_without_known_simplices(tri(self).st)
    ELSE IF _bounds_available(self) THEN _ask_bound_point(self)
    ELSE _ask_best_point(self)

\* As _ask, with the heap consulted before the corners.
_ask_best_first(self) ==
    IF tri(self).val # NoTri /\ self._losses_combined # <<>>
    THEN _ask_best_point(self)
    ELSE IF _bounds_available(self) THEN _ask_bound_point(self)
    ELSE IF tri(self).val = NoTri
         THEN _ask_point_without_known_simplices(tri(self).st)
         ELSE _ask_best_point(self)

_ask(self) ==
    IF _bounds_available(self) THEN _ask_bound_point(self)
    ELSE IF tri(self).val = NoTri
         THEN _ask_point_without_known_simplices(tri(self).st)
         ELSE _ask_best_point(self)

\* The n calls of _ask in sequence.  known[i] tells whether the i-th point
\* was a sample or pending when it was selected.
RECURSIVE AskLoop(_, _, _)
AskLoop(self, n, acc) ==
    IF n = 0 THEN [acc EXCEPT !.st = self]
    ELSE LET Asked(a) ==
                 IF a.err # "none" THEN [acc EXCEPT !.st = a.st, !.err = a.err]
                 ELSE AskLoop(a.st, n - 1,
                              [acc EXCEPT
                                  !.points = Append(@, a.point),
                                  !.losses = Append(@, a.loss),
                                  !.known = Append(@, a.point \in
                                               Keys(self.data) \cup self._pending)])
         IN  Asked(_ask(self))

ask(self, n) ==
    AskLoop(self, n, [st |-> self, err |-> "none", points |-> <<>>,
                      losses |-> <<>>, known |-> <<>>])

(***************************************************************************)
(* losses, loss, remove_unfinished                                         *)
(***************************************************************************)
losses(self) == IF tri(self).val = NoTri THEN EmptyMap ELSE self._losses

LossMax(ls) ==
    ls[CHOOSE s \in DOMAIN ls : \A u \in DOMAIN ls : LossLE(ls[u], ls[s])]

loss(self) ==
    IF DOMAIN losses(self) # {} THEN LossMax(losses(self)) ELSE inf

\* As remove_unfinished, clearing the ledger as well.
remove_unfinished_and_losses(self) ==
    [self EXCEPT !._pending = {},
                 !._subtriangulations = EmptyMap,
                 !._pending_to_simplex = EmptyMap,
                 !._losses = EmptyMap]

remove_unfinished(self) ==
    [self EXCEPT !._pending = {},
                 !._subtriangulations = EmptyMap,
                 !._pending_to_simplex = EmptyMap]

(***************************************************************************)
(* The learner as a state machine: one action per call of the driver.      *)
(***************************************************************************)
Self ==
    [data |-> data, _pending |-> _pending, _tri |-> _tri, _losses |-> _losses,
     _pending_to_simplex |-> _pending_to_simplex,
     _subtriangulations |-> _subtriangulations,
     _losses_combined |-> _losses_combined, _random |-> _random,
     qhull |-> qhull, anisotripic |-> anisotripic]

Install(st) ==
    /\ data' = st.data
    /\ _pending' = st._pending
    /\ _tri' = st._tri
    /\ _losses' = st._losses
    /\ _pending_to_simplex' = st._pending_to_simplex
    /\ _subtriangulations' = st._subtriangulations
    /\ _losses_combined' = st._losses_combined
    /\ _random' = st._random
    /\ qhull' = st.qhull
    /\ anisotripic' = st.anisotripic

Call(op, point, value, n, err, pts, ls, known, flag) ==
    [op |-> op, point |-> point, value |-> value, n |-> n, err |-> err,
     points |-> pts, losses |-> ls, known |-> known, flag |-> flag]

NoAsked == [only |-> FALSE, ok |-> TRUE, points |-> <<>>]

Init ==
    /\ qhull \in {"asc", "desc"}
    /\ anisotripic = FALSE
    /\ data = <<>>
    /\ _pending = {}
    /\ _tri = NoTri
    /\ _losses = EmptyMap
    /\ _pending_to_simplex = EmptyMap
    /\ _subtriangulations = EmptyMap
    /\ _losses_combined = <<>>
    /\ _random = 0
    /\ last = Call("init", 0, NoneValue, 0, "none", <<>>, <<>>, <<>>, FALSE)
    /\ asked = [only |-> TRUE, ok |-> TRUE, points |-> <<>>]
    /\ reference = NewLearner(qhull, anisotripic)
    /\ phase = "tells"
    /\ nops = 0

\* tell(point, value) with a real value: the value of the function, or any
\* value for a point told before.  flag: the point was a sample already.
Tell(point, value) ==
    /\ nops < MaxOps
    /\ value = function(point) \/ point \in Keys(data)
    /\ \E r \in {tell(Self, point, value)} :
           /\ Install(r.st)
           /\ last' = Call("tell", point, value, 0, r.err, <<>>, <<>>, <<>>,
                           point \in Keys(data))
           /\ phase' = IF phase = "tells" THEN "tells" ELSE "mixed"
           /\ reference' = IF phase = "tells" THEN r.st ELSE NewLearner(qhull, anisotripic)
    /\ asked' = NoAsked
    /\ nops' = nops + 1

\* tell(point, None).  A caller does not request a point that is pending.
TellPending(point) ==
    /\ nops < MaxOps
    /\ point \notin _pending
    /\ \E r \in {tell(Self, point, NoneValue)} :
           /\ Install(r.st)
           /\ last' = Call("tell", point, NoneValue, 0, r.err, <<>>, <<>>, <<>>,
                           point \in Keys(data))
    /\ phase' = IF phase \in {"tells", "requests"} THEN "requests" ELSE "mixed"
    /\ reference' = IF phase' = "mixed" THEN NewLearner(qhull, anisotripic) ELSE reference
    /\ asked' = NoAsked
    /\ nops' = nops + 1

\* ask(n)
Ask(n) ==
    /\ nops < MaxOps
    /\ \E r \in {ask(Self, n)} :
           /\ r.err # "range"
           /\ Install(r.st)
           /\ last' = Call("ask", 0, NoneValue, n, r.err, r.points, r.losses,
                           r.known, FALSE)
           /\ asked' = IF asked.only
                       THEN [asked EXCEPT !.points = @ \o r.points,
                                          !.ok = @ /\ r.err = "none"
                                                   /\ Len(r.points) = n]
                       ELSE NoAsked
    /\ phase' = IF phase \in {"tells", "requests"} THEN "requests" ELSE "mixed"
    /\ reference' = IF phase' = "mixed" THEN NewLearner(qhull, anisotripic) ELSE reference
    /\ nops' = nops + 1

\* remove_unfinished(); flag: there was pending bookkeeping of every kind.
Reset ==
    /\ nops < MaxOps
    /\ Install(remove_unfinished(Self))
    /\ last' = Call("reset", 0, NoneValue, 0, "none", <<>>, <<>>, <<>>,
                    /\ _pending # {}
                    /\ DOMAIN _subtriangulations # {}
                    /\ DOMAIN _pending_to_simplex # {})
    /\ phase' = IF phase \in {"tells", "requests", "reset"} THEN "reset" ELSE "mixed"
    /\ reference' = IF phase' = "mixed" THEN NewLearner(qhull, anisotripic) ELSE reference
    /\ asked' = NoAsked
    /\ nops' = nops + 1

Next ==
    \/ \E point \in TellPoints \cup _pending, value \in Values : Tell(point, value)
    \/ \E point \in PendingPoints : TellPending(point)
    \/ \E n \in 1..MaxAsk : Ask(n)
    \/ Reset

Spec == Init /\ [][Next]_vars

(***************************************************************************)
(* The same calls made on a learner that has been told three points of     *)
(* the function already, in one of the orders SeedOrders.                  *)
(***************************************************************************)
SeedOrders == {<<0, 4, 8>>, <<0, 8, 4>>}

Seeded(order, pts) ==
    TellAll(NewLearner(order, FALSE), pts, [i \in 1..Len(pts) |-> function(pts[i])])

InitSeeded ==
    /\ qhull \in {"asc", "desc"}
    /\ anisotripic = FALSE
    /\ \E pts \in SeedOrders :
           /\ data = Seeded(qhull, pts).data
           /\ _pending = Seeded(qhull, pts)._pending
           /\ _tri = Seeded(qhull, pts)._tri
           /\ _losses = Seeded(qhull, pts)._losses
           /\ _pending_to_simplex = Seeded(qhull, pts)._pending_to_simplex
           /\ _subtriangulations = Seeded(qhull, pts)._subtriangulations
           /\ _losses_combined = Seeded(qhull, pts)._losses_combined
           /\ _random = Seeded(qhull, pts)._random
           /\ last = Call("tell", pts[Len(pts)], function(pts[Len(pts)]), 0, "none",
                          <<>>, <<>>, <<>>, FALSE)
           /\ reference = Seeded(qhull, pts)
    /\ asked = NoAsked
    /\ phase = "tells"
    /\ nops = 0

SpecSeeded == InitSeeded /\ [][Next]_vars

(***************************************************************************)
(* A caller that tells scalars and vectors, on a learner constructed with  *)
(* or without anisotropic=True.                                            *)
(***************************************************************************)
InitValues ==
    /\ qhull \in {"asc", "desc"}
    /\ anisotripic \in BOOLEAN
    /\ data = <<>>
    /\ _pending = {}
    /\ _tri = NoTri
    /\ _losses = EmptyMap
    /\ _pending_to_simplex = EmptyMap
    /\ _subtriangulations = EmptyMap
    /\ _losses_combined = <<>>
    /\ _random = 0
    /\ last = Call("init", 0, NoneValue, 0, "none", <<>>, <<>>, <<>>, FALSE)
    /\ asked = NoAsked
    /\ reference = NewLearner(qhull, anisotripic)
    /\ phase = "mixed"
    /\ nops = 0

\* tell(point, value) with the value of the function or with a vector;
\* flag: the point was a sample already.
TellValue(point, value) ==
    /\ nops < MaxValueOps
    /\ \E r \in {tell(Self, point, value)} :
           /\ Install(r.st)
           /\ last' = Call("tell", point, value, 0, r.err, <<>>, <<>>, <<>>,
                           point \in Keys(data))
    /\ UNCHANGED <<asked, reference, phase>>
    /\ nops' = nops + 1

NextValues ==
    \/ \E point \in TellPoints :
           \E value \in {function(point)} \cup VectorValues : TellValue(point, value)
    \/ \E n \in 1..MaxAsk : nops < MaxValueOps /\ Ask(n)

SpecValues == InitValues /\ [][NextValues]_vars

\* An anisotropic learner after three tells of the function, followed by
\* tells of scalars and vectors and by asks.
SeededAnisotropic(order, pts) ==
    TellAll(NewLearner(order, TRUE), pts, [i \in 1..Len(pts) |-> function(pts[i])])

InitSeededAnisotropic ==
    /\ qhull \in {"asc", "desc"}
    /\ anisotripic = TRUE
    /\ \E pts \in SeedOrders :
           /\ data = SeededAnisotropic(qhull, pts).data
           /\ _pending = SeededAnisotropic(qhull, pts)._pending
           /\ _tri = SeededAnisotropic(qhull, pts)._tri
           /\ _losses = SeededAnisotropic(qhull, pts)._losses
           /\ _pending_to_simplex = SeededAnisotropic(qhull, pts)._pending_to_simplex
           /\ _subtriangulations = SeededAnisotropic(qhull, pts)._subtriangulations
           /\ _losses_combined = SeededAnisotropic(qhull, pts)._losses_combined
           /\ _random = SeededAnisotropic(qhull, pts)._random
           /\ last = Call("tell", pts[Len(pts)], function(pts[Len(pts)]), 0, "none",
                          <<>>, <<>>, <<>>, FALSE)
    /\ reference = NewLearner(qhull, anisotripic)
    /\ asked = NoAsked
    /\ phase = "mixed"
    /\ nops = 0

SpecSeededAnisotropic == InitSeededAnisotropic /\ [][NextValues]_vars

(***************************************************************************)
(* Properties.                                                             *)
(***************************************************************************)
Corners == Range(_bounds_points)
FreeCorners(self) == {p \in Corners : p \notin Keys(self.data) /\ p \notin self._pending}
Distinct(q) == \A i, j \in 1..Len(q) : i # j => q[i] # q[j]
Reverse(q) == [i \in 1..Len(q) |-> q[Len(q) + 1 - i]]

\* C1: a tell of a point that is a sample already, with any value or with
\* None, changes no component of the learner.
C1_IdempotentTell ==
    [][(last'.op = "tell" /\ last'.flag) =>
          UNCHANGED <<data, _pending, _tri, _losses, _subtriangulations,
                      _pending_to_simplex, _losses_combined>>]_vars

\* A sample was told again with another value while a triangulation, a
\* ledger and heap entries exist.
C1_Witness ==
    /\ last.op = "tell" /\ last.flag
    /\ last.value.kind = "scalar"
    /\ last.value # Value(data, last.point)
    /\ DOMAIN _losses # {}
    /\ _losses_combined # <<>>

\* C2: no point that ask returns was a sample or pending when that call of
\* ask selected it.
C2_AskReturnsNewPoints ==
    (last.op = "ask" /\ last.err = "none") =>
        \A i \in 1..Len(last.known) : ~last.known[i]

\* C3: on a fresh learner on which only ask is called, every ask returns as
\* many points as requested, and the first 2^ndim points returned are
\* pairwise distinct corners of the bounding box.
C3_BoundingBoxPriority ==
    asked.only =>
        /\ asked.ok
        /\ \A i \in 1..Len(asked.points) :
              i <= 2 ^ ndim =>
                  /\ asked.points[i] \in Corners
                  /\ \A j \in 1..(i - 1) : asked.points[j] # asked.points[i]

\* Only ask was called, and it returned every corner and then another point.
C3_Witness ==
    /\ asked.only
    /\ Len(asked.points) > 2 ^ ndim
    /\ asked.points[Len(asked.points)] \notin Corners

\* C4: when a corner is neither a sample nor pending, the first point of
\* the next ask is such a corner and its priority is infinite.
C4_CornerPrecedence ==
    [][(last'.op = "ask" /\ FreeCorners(Self) # {}) =>
          /\ Len(last'.points) >= 1
          /\ last'.points[1] \in FreeCorners(Self)
          /\ last'.losses[1] = inf]_vars

\* ask returned a corner although three points are samples and the heap
\* holds an entry of an accepted simplex.
C4_Witness ==
    /\ last.op = "ask" /\ last.err = "none"
    /\ last.points[1] \in Corners
    /\ last.losses[1] = inf
    /\ Len(data) >= 3
    /\ \E i \in 1..Len(_losses_combined) :
           _losses_combined[i].simplex \in _tri.simplices

\* C5: ask(n) raises no error and returns n points and n priorities.
C5_AskNeverRefuses ==
    last.op = "ask" =>
        /\ last.err = "none"
        /\ Len(last.points) = last.n
        /\ Len(last.losses) = last.n

\* C6: the points of one call of ask are pairwise distinct.
C6_BatchDistinct ==
    last.op = "ask" => Distinct(last.points)

\* ask returned a batch in which two points came from the heap.
C6_Witness ==
    /\ last.op = "ask" /\ last.err = "none"
    /\ \E i, j \in 1..Len(last.points) :
           i # j /\ last.losses[i] # inf /\ last.losses[j] # inf

\* C7: loss() is infinite with fewer than two samples or with a corner that
\* is not a sample, and otherwise the largest ledger loss over the
\* simplices of the outer triangulation.
C7_LossValue ==
    IF Len(data) < 2 \/ ~bounds_are_done(Self)
    THEN loss(Self) = inf
    ELSE /\ _tri.simplices # {}
         /\ _tri.simplices \subseteq DOMAIN _losses
         /\ loss(Self) = LossMax([s \in _tri.simplices |-> _losses[s]])

\* C8: after a state with a triangulation reached by tells only, requests
\* and then remove_unfinished, ask answers as it answers in that state.
AskView(self, n) ==
    LET r == ask(self, n)
    IN  [err |-> r.err, points |-> r.points, losses |-> r.losses]

C8_ResetRestores ==
    (phase = "reset" /\ reference._tri # NoTri) =>
        \A n \in 1..MaxAsk : AskView(Self, n) = AskView(reference, n)

\* C9: remove_unfinished empties the pending set, the subtriangulations and
\* the pending-to-home map, and leaves the samples, the outer triangulation
\* and the ledger as they were.
C9_ResetFrame ==
    [][last'.op = "reset" =>
          /\ _pending' = {}
          /\ DOMAIN _subtriangulations' = {}
          /\ DOMAIN _pending_to_simplex' = {}
          /\ UNCHANGED <<data, _tri, _losses>>]_vars

\* remove_unfinished was called with pending bookkeeping of every kind and
\* a ledger in place.
C9_Witness ==
    /\ last.op = "reset" /\ last.flag
    /\ DOMAIN _losses # {}
    /\ _pending = {}

\* C10: after ask has returned a batch, telling the values in the order of
\* the requests and telling them in the reverse order end in the same
\* ledger and the same outer triangulation, as sets of intervals.
Interval(t, s) == {t.vertices[s[1]], t.vertices[s[2]]}
LedgerOf(self) ==
    {<<Interval(self._tri, s), self._losses[s]>> : s \in DOMAIN self._losses}
SimplicesOf(self) == {Interval(self._tri, s) : s \in self._tri.simplices}

C10_OutOfOrder ==
    (last.op = "ask" /\ last.err = "none") =>
        \A ys \in [1..Len(last.points) -> Values] :
            LET fwd == TellAll(Self, last.points, ys)
                bwd == TellAll(Self, Reverse(last.points), Reverse(ys))
            IN  /\ LedgerOf(fwd) = LedgerOf(bwd)
                /\ SimplicesOf(fwd) = SimplicesOf(bwd)

\* C11: no point is pending and a sample at once.
C11_PendingSampledDisjoint ==
    _pending \cap Keys(data) = {}

\* A point that ask had chosen inside a simplex, and that was pending, was
\* told with its value, and other points are pending still.
C11_Witness ==
    /\ last.op = "tell" /\ ~last.flag
    /\ last.value # NoneValue
    /\ last.point \in DOMAIN _pending_to_simplex
    /\ last.point \in Keys(data)
    /\ _pending # {}

\* The liveness check of a heap entry: its home is a simplex of the outer
\* triangulation, and it is the entry of a whole simplex without a
\* subtriangulation or of a cell of the home's subtriangulation.
IsLive(self, e) ==
    /\ e.simplex \in self._tri.simplices
    /\ IF e.subsimplex = NoSimplex
       THEN e.simplex \notin DOMAIN self._subtriangulations
       ELSE /\ e.simplex \in DOMAIN self._subtriangulations
            /\ e.subsimplex \in self._subtriangulations[e.simplex].simplices

LiveEntries(self) == SelectSeq(self._losses_combined, LAMBDA e : IsLive(self, e))

\* What the two ways of telling a value are compared on.
OutcomeView(self) ==
    [data |-> self.data, _pending |-> self._pending, _tri |-> self._tri,
     _losses |-> self._losses, live |-> LiveEntries(self)]

\* The points a caller may mark pending and then tell.
FreePoints(self) ==
    (TellPoints \cup PendingPoints) \ (Keys(self.data) \cup self._pending)

\* C12: tell(x, None) followed by tell(x, y) leaves the samples, the pending
\* set, the outer triangulation, the ledger and the live heap entries that
\* tell(x, y) alone leaves.
C12_PendingThenTell ==
    \A x \in FreePoints(Self), y \in Values :
        OutcomeView(tell(tell(Self, x, NoneValue).st, x, y).st)
            = OutcomeView(tell(Self, x, y).st)

\* A state in which marking some point pending splits an accepted simplex
\* into cells with heap entries, and telling its value then replaces that
\* simplex, so that the heaps of the two ways differ in stale entries only.
C12_Witness ==
    \E x \in FreePoints(Self), y \in Values :
        /\ tell(Self, x, NoneValue).err = "none"
        /\ DOMAIN tell(Self, x, NoneValue).st._subtriangulations
               # DOMAIN _subtriangulations
        /\ tell(tell(Self, x, NoneValue).st, x, y).st._losses_combined
               # tell(Self, x, y).st._losses_combined
        /\ tell(Self, x, y).st._losses # _losses
        /\ _pending # {}

\* The live heap entries of the cells of the subtriangulation of simplex.
LiveCellEntries(self, simplex) ==
    SelectSeq(LiveEntries(self),
              LAMBDA e : e.simplex = simplex /\ e.subsimplex # NoSimplex)

\* The sum of losses that are shares of one loss: they have its vol and sq.
RECURSIVE SumSub(_)
SumSub(es) == IF es = <<>> THEN 0 ELSE Head(es).loss.sub + SumSub(Tail(es))

SumLoss(es, vol, sq) == Loss(SumSub(es), vol, sq)

Shares(es, vol, sq) ==
    \A i \in 1..Len(es) : es[i].loss.vol = vol /\ es[i].loss.sq = sq

\* C13: for every simplex of the outer triangulation that has a
\* subtriangulation, the ledger holds its loss, and the losses of the live
\* heap entries of its cells add up to that loss.
C13_LossConservation ==
    \A s \in DOMAIN _subtriangulations \cap _tri.simplices :
        /\ s \in DOMAIN _losses
        /\ LET es == LiveCellEntries(Self, s)
               vol == _losses[s].vol * Tri_volume(_tri, s)
           IN  /\ Shares(es, vol, _losses[s].sq)
               /\ LossEQ(SumLoss(es, vol, _losses[s].sq), _losses[s])

\* C14: a tell of a new point with a value whose dimension differs from
\* the dimension of the first value told ends in an error, and the point
\* is not among the samples after it.
C14_DimensionMismatch ==
    [][(/\ last'.op = "tell" /\ ~last'.flag
        /\ last'.value # NoneValue
        /\ data # <<>>
        /\ Dim(last'.value) # vdim(Self)) =>
          /\ last'.err # "none"
          /\ last'.point \notin Keys(data')]_vars

\* Some sample has a vector for its value; every value has one dimension.
SeesVector(d) == \E i \in 1..Len(d) : d[i].y.kind = "vector"
OneDimension(d) == \A i, j \in 1..Len(d) : Dim(d[i].y) = Dim(d[j].y)

\* C15: a tell of a new point whose value, or the value of a sample near
\* it, is a vector raises ValueError before the point is inserted into the
\* outer triangulation when the learner is anisotropic and has a
\* triangulation; without the flag or without a triangulation the value
\* becomes a sample, with no error when all values have one dimension.
C15_AnisotropicVector ==
    [][(/\ last'.op = "tell" /\ ~last'.flag
        /\ last'.value # NoneValue
        /\ SeesVector(data')) =>
          IF anisotripic /\ _tri # NoTri
          THEN /\ last'.err = "ValueError"
               /\ _tri' = _tri
          ELSE /\ last'.point \in Keys(data')
               /\ Value(data', last'.point) = last'.value
               /\ OneDimension(data') => last'.err = "none"]_vars

\* An anisotropic learner with a triangulation was told a vector and
\* raised ValueError.
C15_Witness ==
    /\ last.op = "tell" /\ ~last.flag
    /\ last.value.kind = "vector"
    /\ anisotripic
    /\ last.err = "ValueError"
    /\ _tri # NoTri
    /\ Len(_tri.vertices) < Len(data)

\* A learner that is not anisotropic and has a ledger was told a vector
\* without an error.
C15_WitnessAccepted ==
    /\ last.op = "tell" /\ ~last.flag
    /\ last.value.kind = "vector"
    /\ ~anisotripic
    /\ last.err = "none"
    /\ DOMAIN _losses # {}
    /\ Len(_tri.vertices) = Len(data)

\* C16: the pop returns the first entry of the heap that is live, removes
\* it and the entries before it from the heap and changes nothing else;
\* it runs out of entries only when no entry is live.
C16_PopLive ==
    _tri # NoTri =>
        LET heap == _losses_combined
            r == _pop_highest_existing_simplex(Self)
        IN  IF r.err = "none"
            THEN /\ IsLive(Self, r.entry)
                 /\ \E k \in 1..Len(heap) :
                        /\ heap[k] = r.entry
                        /\ \A i \in 1..(k - 1) : ~IsLive(Self, heap[i])
                        /\ r.st = [Self EXCEPT !._losses_combined =
                                                  SubSeq(heap, k + 1, Len(heap))]
            ELSE \A i \in 1..Len(heap) : ~IsLive(Self, heap[i])

\* ask has taken a point from the heap, every corner is taken, and the next
\* pop discards the entry at the top and returns a later one.
C16_Witness ==
    /\ last.op = "ask" /\ last.err = "none"
    /\ \E i \in 1..Len(last.losses) : last.losses[i] # inf
    /\ FreeCorners(Self) = {}
    /\ _losses_combined # <<>>
    /\ ~IsLive(Self, _losses_combined[1])
    /\ _pop_highest_existing_simplex(Self).err = "none"

\* The share of the loss of the simplex home that falls to the cell of its
\* current subtriangulation.
CellLoss(self, home, cell) ==
    SubLoss(self._losses[home],
            Tri_volume(self._subtriangulations[home], cell),
            Tri_volume(self._tri, home))

\* C17: the entry of a cell that the pop returns carries the loss computed
\* from that cell of the current subtriangulation of its home; an entry
\* pushed for a cell of a subtriangulation that was discarded is not
\* returned.
C17_StaleNeverReturned ==
    (_tri # NoTri /\ FreeCorners(Self) = {}) =>
        LET r == _pop_highest_existing_simplex(Self)
        IN  (r.err = "none" /\ r.entry.subsimplex # NoSimplex) =>
                /\ r.entry.simplex \in DOMAIN _losses
                /\ LossEQ(r.entry.loss,
                          CellLoss(Self, r.entry.simplex, r.entry.subsimplex))

\* The region of a heap entry: the interval of its simplex, or of its cell
\* in the subtriangulation of its simplex.
Region(self, e) ==
    IF e.subsimplex = NoSimplex
    THEN <<SimplexLo(self._tri, e.simplex), SimplexHi(self._tri, e.simplex)>>
    ELSE <<SimplexLo(self._subtriangulations[e.simplex], e.subsimplex),
           SimplexHi(self._subtriangulations[e.simplex], e.subsimplex)>>

\* ask(1) has selected the live entry e: it reports the loss of e, returns a
\* point inside the region of e and records it as pending with the simplex
\* of e as its home.
Selects(self, a, e) ==
    /\ a.losses = <<e.loss>>
    /\ Len(a.points) = 1
    /\ Region(self, e)[1] < a.points[1] /\ a.points[1] < Region(self, e)[2]
    /\ a.points[1] \in a.st._pending
    /\ a.points[1] \in DOMAIN a.st._pending_to_simplex
    /\ a.st._pending_to_simplex[a.points[1]] = e.simplex

\* C18: with a triangulation and every corner sampled or pending, ask(1)
\* selects a live entry of the heap whose loss is at least the loss of
\* every live entry, reports that loss, returns a point inside the entry's
\* region and records it as pending with the entry's simplex as its home.
C18_MaxLossSelection ==
    (_tri # NoTri /\ FreeCorners(Self) = {}) =>
        LET live == LiveEntries(Self)
            a == ask(Self, 1)
        IN  a.err # "range" =>
                /\ a.err = "none"
                /\ \E k \in 1..Len(live) :
                       /\ \A j \in 1..Len(live) : LossLE(live[j].loss, live[k].loss)
                       /\ Selects(Self, a, live[k])

\* C19: whenever the outer triangulation exists, the simplices that have a
\* loss in the ledger are the simplices of the outer triangulation, those
\* of the initial simplex included.
C19_LedgerMatchesTriangulation ==
    _tri # NoTri => DOMAIN _losses = _tri.simplices

\* The subtriangulation of the simplex s has a vertex that is pending and
\* not a sample.
HoldsPending(self, s) ==
    \E i \in 1..Len(self._subtriangulations[s].vertices) :
        /\ self._subtriangulations[s].vertices[i] \in self._pending
        /\ self._subtriangulations[s].vertices[i] \notin Keys(self.data)

Lifetime ==
    \A s \in DOMAIN _subtriangulations :
        s \in _tri.simplices /\ HoldsPending(Self, s)

\* C20: after every step, every simplex that has a subtriangulation is a
\* simplex of the outer triangulation and its subtriangulation holds a
\* point that is pending and not a sample; a simplex that the step removes
\* from the outer triangulation has no subtriangulation after the step.
C20_SubtriangulationLifetime ==
    [][/\ Lifetime'
       /\ \A s \in DOMAIN _subtriangulations :
              s \notin _tri'.simplices => s \notin DOMAIN _subtriangulations']_vars

\* A simplex has a subtriangulation, and telling the value of a pending
\* point of it removes the simplex from the outer triangulation and its
\* subtriangulation with it, while another pending point of it gets a
\* subtriangulation in a new simplex.
C20_Witness ==
    /\ nops < MaxOps
    /\ \E s \in DOMAIN _subtriangulations :
           \E p \in Range(_subtriangulations[s].vertices) \cap _pending :
               \E r \in {tell(Self, p, function(p))} :
                   /\ r.err = "none"
                   /\ s \notin r.st._tri.simplices
                   /\ s \notin DOMAIN r.st._subtriangulations
                   /\ r.st._subtriangulations # EmptyMap

\* The vertices of the subtriangulations of the simplices in homes.
SubVertices(subs, homes) ==
    UNION {Range(subs[s].vertices) : s \in homes \cap DOMAIN subs}

\* C21: when tell(p, v) removes simplices that had subtriangulations, every
\* point of those subtriangulations that is still pending is afterwards a
\* vertex of the subtriangulation of every added simplex that contains it,
\* and its home in _pending_to_simplex is a simplex of the outer
\* triangulation that contains it; no sample is a vertex that a
\* subtriangulation made by the tell has beyond the corners of its simplex.
C21_Rehoming ==
    [][(/\ last'.op = "tell" /\ last'.value # NoneValue /\ last'.err = "none"
        /\ _tri # NoTri)
       => /\ \A q \in SubVertices(_subtriangulations,
                                  _tri.simplices \ _tri'.simplices) \cap _pending' :
                 /\ \A s \in _tri'.simplices \ _tri.simplices :
                        Tri_point_in_simplex(_tri', q, s) =>
                            /\ s \in DOMAIN _subtriangulations'
                            /\ q \in Range(_subtriangulations'[s].vertices)
                 /\ q \in DOMAIN _pending_to_simplex'
                 /\ _pending_to_simplex'[q] \in _tri'.simplices
                 /\ Tri_point_in_simplex(_tri', q, _pending_to_simplex'[q])
          /\ \A s \in DOMAIN _subtriangulations' \ DOMAIN _subtriangulations :
                 \A i \in 3..Len(_subtriangulations'[s].vertices) :
                     _subtriangulations'[s].vertices[i] \notin Keys(data')]_vars

\* tell(p, v) has removed a simplex whose subtriangulation held p and
\* another pending point, and that point is now a vertex of the
\* subtriangulation of an added simplex.
C21_Witness ==
    /\ last.op = "tell" /\ last.value # NoneValue /\ last.err = "none"
    /\ \E s \in DOMAIN _subtriangulations :
           /\ last.point \in Range(Tri_get_vertices(_tri, s))
           /\ \E q \in Range(_subtriangulations[s].vertices) \cap _pending :
                  /\ q \in DOMAIN _pending_to_simplex
                  /\ _pending_to_simplex[q] = s
    /\ last.point \in DOMAIN _pending_to_simplex

\* C22: when the pop that ask makes returns the entry of a whole simplex,
\* no pending point lies in that simplex, whenever the point was told.
C22_WholeSimplexFree ==
    (_tri # NoTri /\ FreeCorners(Self) = {}) =>
        LET r == _pop_highest_existing_simplex(Self)
        IN  (r.err = "none" /\ r.entry.subsimplex = NoSimplex) =>
                \A q \in _pending : ~Tri_point_in_simplex(_tri, q, r.entry.simplex)

\* C23: ask(n) and tell(p, None) leave the samples, the outer triangulation
\* and the ledger as they were.
C23_RequestsFrame ==
    [][(last'.op = "ask" \/ (last'.op = "tell" /\ last'.value = NoneValue))
       => (data' = data /\ _tri' = _tri /\ _losses' = _losses)]_vars

\* ask has subdivided a simplex that has a loss in the ledger: the point is
\* pending in a subtriangulation and the cells have entries in the heap.
C23_Witness ==
    /\ last.op = "ask" /\ last.err = "none"
    /\ \E i \in 1..Len(last.points) :
           /\ last.points[i] \in _pending
           /\ last.points[i] \in DOMAIN _pending_to_simplex
           /\ _pending_to_simplex[last.points[i]] \in DOMAIN _losses
           /\ _pending_to_simplex[last.points[i]] \in DOMAIN _subtriangulations
    /\ \E k \in 1..Len(_losses_combined) : _losses_combined[k].subsimplex # NoSimplex

\* The number of times the entry e occurs in the heap q.
Count(q, e) == Cardinality({i \in 1..Len(q) : q[i] = e})

\* The entries of the new cells of the simplices in touched.
NewEntries(self, before, after, touched) ==
    UNION {{Entry(SubLoss(self._losses[s], Tri_volume(after[s], c),
                          Tri_volume(self._tri, s)), s, c) :
                c \in after[s].simplices \
                         (IF s \in DOMAIN before THEN before[s].simplices ELSE {})} :
               s \in touched}

\* The simplices that share a vertex with home and contain the point.
Touched(t, home, point) ==
    {s \in t.simplices : /\ \E i \in 1..2 : s[i] = home[1] \/ s[i] = home[2]
                         /\ Tri_point_in_simplex(t, point, s)}

\* C24: tell(p, None) of a point that lies in a simplex of the outer
\* triangulation ends without error; p becomes a vertex of the
\* subtriangulation of every simplex that shares a vertex with that
\* simplex and contains p; the heap gains exactly one entry for each new
\* cell, with the share of the simplex's ledger loss that the cell's volume
\* has in the simplex's; every other subtriangulation stays as it was.
C24_PendingOnSharedFace ==
    [][(/\ last'.op = "tell" /\ last'.value = NoneValue /\ ~last'.flag
        /\ _tri # NoTri
        /\ Tri_locate_point(_tri, last'.point) # NoSimplex)
       => LET p == last'.point
              touched == Touched(_tri, Tri_locate_point(_tri, p), p)
          IN  /\ last'.err = "none"
              /\ \A s \in touched :
                     /\ s \in DOMAIN _subtriangulations'
                     /\ p \in Range(_subtriangulations'[s].vertices)
                     /\ s \in DOMAIN _losses
              /\ \A s \in DOMAIN _subtriangulations' \ touched :
                     /\ s \in DOMAIN _subtriangulations
                     /\ _subtriangulations'[s] = _subtriangulations[s]
              /\ (\A s \in touched : s \in DOMAIN _subtriangulations' \cap DOMAIN _losses)
                     => LET new == NewEntries(Self, _subtriangulations,
                                                 _subtriangulations', touched)
                        IN  \A e \in Range(_losses_combined') \cup
                                      Range(_losses_combined) \cup new :
                                Count(_losses_combined', e) =
                                    Count(_losses_combined, e) +
                                    (IF e \in new THEN 1 ELSE 0)]_vars

C26_AnisotropicSelection ==
    (/\ _tri # NoTri /\ FreeCorners(Self) = {}
     /\ \A i \in 1..Len(data) : data[i].y.kind = "scalar") =>
        LET a == _ask_best_point(Self)
        IN  a.err = "none" =>
                _ask_best_point_transform(Self) =
                    get_local_transform_matrix(
                        [a.st EXCEPT !.data = Append(@, [x |-> a.point,
                                                         y |-> function(a.point)])],
                        a.point).val

\* The heap holds an entry of the simplex s and its cell c (NoSimplex for
\* the whole simplex).
HasEntry(self, s, c) ==
    \E k \in 1..Len(self._losses_combined) :
        /\ self._losses_combined[k].simplex = s
        /\ self._losses_combined[k].subsimplex = c

\* C27: whenever the outer triangulation exists, every simplex of it
\* without a subtriangulation has a whole-simplex entry in the heap, and
\* every cell of every subtriangulation has a cell entry.
C27_QueueCoverage ==
    _tri # NoTri =>
        \A s \in _tri.simplices :
            IF s \notin DOMAIN _subtriangulations
            THEN HasEntry(Self, s, NoSimplex)
            ELSE \A c \in _subtriangulations[s].simplices : HasEntry(Self, s, c)

\* C28: when tell(p, v) ends in the error of the anisotropic learner with
\* a vector among the values, p is no longer pending and is a sample with
\* the value v, while the outer triangulation, the ledger and the heap are
\* as before and p is not a vertex; a sample that is not a vertex of the
\* outer triangulation stays a sample and never becomes a vertex.
C28_RejectedTellNotAtomic ==
    [][/\ (/\ last'.op = "tell" /\ last'.err = "ValueError" /\ ~last'.flag
            /\ anisotripic /\ _tri # NoTri) =>
               /\ last'.point \notin _pending'
               /\ data' = Append(data, [x |-> last'.point, y |-> last'.value])
               /\ _tri' = _tri
               /\ last'.point \notin Range(_tri'.vertices)
               /\ _losses' = _losses
               /\ _losses_combined' = _losses_combined
       /\ _tri # NoTri =>
               \A q \in Keys(data) \ Range(_tri.vertices) :
                   q \in Keys(data') /\ q \notin Range(_tri'.vertices)]_vars

\* A point whose tell was rejected has been told again: it is a sample and
\* not a vertex of the outer triangulation.
C28_Witness ==
    /\ anisotripic /\ _tri # NoTri
    /\ last.op = "tell" /\ last.flag /\ last.err = "none"
    /\ last.point \in Keys(data)
    /\ last.point \notin Range(_tri.vertices)

====
